---- MODULE Spec2Model ----
(***************************************************************************)
(* Workflow graph engine (app/engine/runner.py) with its registries, the   *)
(* in-memory stores and the run endpoint that drives it.                   *)
(*                                                                         *)
(* Python objects are modelled by reference: a WorkflowState lives in      *)
(* `heap` and is named by its index, so that a step which changes the      *)
(* object it was handed is visible through every name of that object.      *)
(***************************************************************************)
EXTENDS Naturals, Integers, Sequences, FiniteSets, TLC

\* ------------------------------------------------------------------ bounds
MaxBranches == 2        \* longest branch list handed to compute_next_node
LowThreshold == 3       \* a quality_threshold that a few steps reach

\* ------------------------------------------------------- program constants
MAX_ITERATIONS == 20

None == "None"          \* Python's None where a name or a function is expected
NoRef == 0              \* Python's None where a WorkflowState is expected

RunIds == {"r1", "r2"}  \* run_id values (uuid4)
Nodes == {"a", "b"}
Conds == {"condA", "condB"}

\* Behaviours of a registered step implementation.
\*   inplace : changes the state object it is handed and returns that object
\*   fresh   : leaves the object alone and returns a changed copy
\*   flaky   : as inplace, or raises, possibly after changing the object
StepKinds == {"inplace", "fresh", "flaky"}

\* Behaviours of a registered predicate.
CondKinds == {"true", "false", "raise", "below"}

Thresholds == {LowThreshold, MAX_ITERATIONS}

VARIABLES
    node_registry,       \* registry.node_registry: name -> step implementation
    condition_registry,  \* registry.condition_registry: name -> predicate
    graphs_store,        \* memory_store.graphs_store: graph_id -> GraphDefinition
    runs_store,          \* memory_store.runs_store: run_id -> RunContext object
    heap,                \* WorkflowState objects, by reference
    ctx,                 \* the RunContext object of each run
    fr,                  \* run_graph's arguments and locals, for each run
    pc,                  \* position of each run in run_graph_endpoint / run_graph
    obs,                 \* history of each run: attempts made, state values seen
    response,            \* what run_graph_endpoint has returned for each run
    created,             \* the last create request and what create_graph returned
    queried              \* the last state query and what get_run_state returned

vars == <<node_registry, condition_registry, graphs_store, runs_store, heap,
          ctx, fr, pc, obs, response, created, queried>>

\* ------------------------------------------------------------- data model
BranchCondition == [condition : Conds, target : Nodes]

RECURSIVE SeqsUpTo(_, _)
SeqsUpTo(S, n) ==
    IF n = 0 THEN {<<>>}
    ELSE LET shorter == SeqsUpTo(S, n - 1)
         IN  shorter \cup {Append(s, x) : s \in shorter, x \in S}

EdgeDef(bl) == [default_next : Nodes \cup {None}, branches : bl]

Dicts(K, V) == UNION {[D -> V] : D \in SUBSET K}

DictGet(d, k) == IF k \in DOMAIN d THEN d[k] ELSE None

DictPut(d, k, v) == [x \in DOMAIN d \cup {k} |-> IF x = k THEN v ELSE d[x]]

\* Graphs over the nodes a and b, started at a; the edge of a takes its branch
\* list from bl, the edge of b has no branches.
GraphDefinition(gid, bl) ==
    {[graph_id |-> gid, start_node |-> "a", nodes |-> <<"a", "b">>, edges |-> e] :
        e \in {d \in Dicts(Nodes, EdgeDef(bl \cup {<<>>})) :
                  "b" \in DOMAIN d => d["b"].branches = <<>>}}

WorkflowState(t) == [n |-> 0, dirty |-> FALSE, threshold |-> t]

RunContext(run_id, graph_id) ==
    [run_id |-> run_id, graph_id |-> graph_id, current_node |-> None,
     iteration |-> 0, status |-> "running", log |-> <<>>, final_state |-> NoRef]

\* Frame of run_graph(graph, initial_state, tools, context)
Frame(graph, initial_state) ==
    [graph |-> graph, initial_state |-> initial_state, state |-> NoRef,
     current |-> None, node_fn |-> None, ret |-> NoRef, next_node |-> None]

NoFrame == Frame(None, NoRef)

\* What an observer of a run has seen: the attempts made (a step looked up and
\* found missing, or invoked), the contents of the initial state when the run
\* began, the contents of the state when the attempt in progress began, and
\* the payload of the run request, once it has been made.
Observed(v) == [attempts |-> 0, given |-> v, before |-> v, request |-> <<>>]

\* state.model_dump(): the contents of the object, detached from the object
model_dump(ref) == heap[ref]

\* ------------------------------------------------------ branch resolution
\* A JSON value of the state data whose type matters: an integer, or a value
\* of another type.
IntValue(i) == [type |-> "int", value |-> i]

\* A string of source code, by what the workflow reads of it: the functions
\* extract_functions finds in it and its length.
CodeValue(functions, len) == [type |-> "str", functions |-> functions, len |-> len]

\* code_review.py 88-91; comparing with a value that is not a number raises
quality_below_threshold(st) ==
    LET quality_score == IF "quality_score" \in DOMAIN st THEN st.quality_score ELSE 0
        threshold == IF "quality_threshold" \in DOMAIN st
                     THEN st.quality_threshold ELSE IntValue(70)
    IN  IF threshold.type # "int" THEN "raise"
        ELSE IF quality_score < threshold.value THEN "true" ELSE "false"

\* cond_fn(state): "true", "false", or "raise" when it raises
CondCall(cond_fn, st) ==
    CASE cond_fn = "true"  -> "true"
      [] cond_fn = "false" -> "false"
      [] cond_fn = "raise" -> "raise"
      [] cond_fn = "below" -> IF st.n < st.threshold THEN "true" ELSE "false"
      [] cond_fn = "quality_below_threshold" -> quality_below_threshold(st)

RECURSIVE BranchLoop(_, _, _)
BranchLoop(edge, i, st) ==
    IF i > Len(edge.branches) THEN edge.default_next
    ELSE LET branch == edge.branches[i]
             cond_fn == DictGet(condition_registry, branch.condition)
         IN  IF cond_fn = None THEN BranchLoop(edge, i + 1, st)
             ELSE IF CondCall(cond_fn, st) = "true" THEN branch.target
             ELSE BranchLoop(edge, i + 1, st)

\* a predicate that raises ends the scan: the default is taken at once
RECURSIVE BranchLoopStopsOnError(_, _, _)
BranchLoopStopsOnError(edge, i, st) ==
    IF i > Len(edge.branches) THEN edge.default_next
    ELSE LET branch == edge.branches[i]
             cond_fn == DictGet(condition_registry, branch.condition)
         IN  IF cond_fn = None THEN BranchLoopStopsOnError(edge, i + 1, st)
             ELSE IF CondCall(cond_fn, st) = "raise" THEN edge.default_next
             ELSE IF CondCall(cond_fn, st) = "true" THEN branch.target
             ELSE BranchLoopStopsOnError(edge, i + 1, st)

compute_next_node_stops_on_error(edge, state) ==
    BranchLoopStopsOnError(edge, 1, heap[state])

\* a branch whose predicate is not registered counts as a match
RECURSIVE BranchLoopMissingMatches(_, _, _)
BranchLoopMissingMatches(edge, i, st) ==
    IF i > Len(edge.branches) THEN edge.default_next
    ELSE LET branch == edge.branches[i]
             cond_fn == DictGet(condition_registry, branch.condition)
         IN  IF cond_fn = None THEN branch.target
             ELSE IF CondCall(cond_fn, st) = "true" THEN branch.target
             ELSE BranchLoopMissingMatches(edge, i + 1, st)

compute_next_node_missing_matches(edge, state) ==
    BranchLoopMissingMatches(edge, 1, heap[state])

\* runner.py 11-29
compute_next_node(edge, state) == BranchLoop(edge, 1, heap[state])

\* --------------------------------------------------------------- run_graph
SetCtx(r, c) == ctx' = [ctx EXCEPT ![r] = c]
Goto(r, l) == pc' = [pc EXCEPT ![r] = l]

\* the cap compared with > in place of >=
CapReachedLate(iteration) == iteration > MAX_ITERATIONS

CapReached(iteration) == iteration >= MAX_ITERATIONS

\* runner.py 42-44
Start(r) ==
    /\ pc[r] = "start"
    /\ fr' = [fr EXCEPT ![r].state = fr[r].initial_state,
                        ![r].current = fr[r].graph.start_node]
    /\ SetCtx(r, [ctx[r] EXCEPT !.current_node = fr[r].graph.start_node])
    /\ Goto(r, "loop")
    /\ UNCHANGED <<node_registry, condition_registry, graphs_store, runs_store,
                   heap, obs, response, created, queried>>

\* the increment moved below the lookup, so that a missing node is not counted
LoopTopCountsFoundOnly(r) ==
    /\ pc[r] = "loop"
    /\ LET node_fn == DictGet(node_registry, fr[r].current)
       IN  /\ fr' = [fr EXCEPT ![r].node_fn = node_fn]
           /\ SetCtx(r, [ctx[r] EXCEPT !.iteration =
                                IF node_fn = None THEN @ ELSE @ + 1])
           /\ Goto(r, IF node_fn = None THEN "missing" ELSE "invoke")
    /\ obs' = [obs EXCEPT ![r].before = heap[fr[r].state]]
    /\ UNCHANGED <<node_registry, condition_registry, graphs_store, runs_store,
                   heap, response, created, queried>>

\* runner.py 47-51
LoopTop(r) ==
    /\ pc[r] = "loop"
    /\ SetCtx(r, [ctx[r] EXCEPT !.iteration = @ + 1])
    /\ LET node_fn == DictGet(node_registry, fr[r].current)
       IN  /\ fr' = [fr EXCEPT ![r].node_fn = node_fn]
           /\ Goto(r, IF node_fn = None THEN "missing" ELSE "invoke")
    /\ obs' = [obs EXCEPT ![r].before = heap[fr[r].state]]
    /\ UNCHANGED <<node_registry, condition_registry, graphs_store, runs_store,
                   heap, response, created, queried>>

\* a missing step taken for the end of the workflow
MissingStatusCompleted(r) ==
    /\ pc[r] = "missing"
    /\ SetCtx(r, [ctx[r] EXCEPT !.status = "completed"])
    /\ obs' = [obs EXCEPT ![r].attempts = @ + 1]
    /\ Goto(r, "missing_log")
    /\ UNCHANGED <<node_registry, condition_registry, graphs_store, runs_store,
                   heap, fr, response, created, queried>>

\* runner.py 52
MissingStatus(r) ==
    /\ pc[r] = "missing"
    /\ SetCtx(r, [ctx[r] EXCEPT !.status = "failed"])
    /\ obs' = [obs EXCEPT ![r].attempts = @ + 1]
    /\ Goto(r, "missing_log")
    /\ UNCHANGED <<node_registry, condition_registry, graphs_store, runs_store,
                   heap, fr, response, created, queried>>

\* runner.py 53-61
MissingLog(r) ==
    /\ pc[r] = "missing_log"
    /\ SetCtx(r, [ctx[r] EXCEPT !.log = Append(@,
            [node |-> fr[r].current, iteration |-> ctx[r].iteration,
             event |-> "missing_node", message |-> "not found"])])
    /\ Goto(r, "finalize")
    /\ UNCHANGED <<node_registry, condition_registry, graphs_store, runs_store,
                   heap, fr, obs, response, created, queried>>

\* ------------------------------------------------- code-review workflow
Repeat(x, k) == [i \in 1..k |-> x]

\* state.data.get("code", "")
GetCode(data) == IF "code" \in DOMAIN data THEN data.code ELSE CodeValue(0, 0)

\* state.data.get("complexity", {}).get("score", 0)
GetComplexity(data) == IF "complexity" \in DOMAIN data THEN data.complexity.score ELSE 0

\* state.data.get("issues", {}).get("count", 0)
GetIssueCount(data) == IF "issues" \in DOMAIN data THEN data.issues.count ELSE 0

\* code_review.py 13-25: code.split raises when code is not a string
extract_functions_raises(data) == GetCode(data).type # "str"

extract_functions(data) ==
    DictPut(data, "functions", Repeat("name", GetCode(data).functions))

\* code_review.py 28-34
check_complexity(data) ==
    LET functions == IF "functions" \in DOMAIN data THEN data.functions ELSE <<>>
        code == GetCode(data)
        sum == Len(functions) * 5 + code.len \div 500
        score == IF sum < 100 THEN sum ELSE 100
    IN  DictPut(data, "complexity",
                [score |-> score, function_count |-> Len(functions),
                 code_len |-> code.len])

\* issues are found only while no suggestions have been made
detect_issues_until_suggested(data) ==
    LET complexity == GetComplexity(data)
        found == (IF complexity > 60 THEN <<"High complexity">> ELSE <<>>)
                    \o (IF complexity > 80 THEN <<"Refactor">> ELSE <<>>)
        issues == IF "suggestions" \in DOMAIN data THEN <<>> ELSE found
    IN  DictPut(data, "issues", [count |-> Len(issues), items |-> issues])

\* code_review.py 37-45
detect_issues(data) ==
    LET complexity == GetComplexity(data)
        issues == (IF complexity > 60 THEN <<"High complexity">> ELSE <<>>)
                     \o (IF complexity > 80 THEN <<"Refactor">> ELSE <<>>)
    IN  DictPut(data, "issues", [count |-> Len(issues), items |-> issues])

\* code_review.py 48-63
suggest_improvements(data) ==
    LET count == GetIssueCount(data)
        suggestions == IF count = 0 THEN <<"docstrings">>
                       ELSE <<"helpers", "naming", "tests">>
    IN  DictPut(data, "suggestions", suggestions)

\* code_review.py 66-72
evaluate_quality(data) ==
    LET complexity == GetComplexity(data)
        issue_count == GetIssueCount(data)
        raw == 100 - complexity - issue_count * 5
        quality_score == IF raw > 0 THEN raw ELSE 0
    IN  DictPut(data, "quality_score", quality_score)

\* the registered step named node_fn raises on the data
WorkflowRaises(node_fn, data) ==
    node_fn = "extract_functions" /\ extract_functions_raises(data)

\* the data after the registered step named node_fn
WorkflowWrite(node_fn, data) ==
    CASE node_fn = "extract_functions"    -> extract_functions(data)
      [] node_fn = "check_complexity"     -> check_complexity(data)
      [] node_fn = "detect_issues"        -> detect_issues(data)
      [] node_fn = "suggest_improvements" -> suggest_improvements(data)
      [] node_fn = "evaluate_quality"     -> evaluate_quality(data)

\* What a step implementation does to the contents of a state object.
StepWrite(v) == [v EXCEPT !.n = @ + 1]
StepScribble(v) == [v EXCEPT !.dirty = TRUE]

\* Outcomes of node_fn(state, tools): the changed heap, and the returned
\* reference (NoRef when the step raised).
StepOutcomes(node_fn, state) ==
    LET inplace == [heap |-> [heap EXCEPT ![state] = StepWrite(@)], ret |-> state]
        fresh   == [heap |-> Append(heap, StepWrite(heap[state])), ret |-> Len(heap) + 1]
        raised  == [heap |-> heap, ret |-> NoRef]
        spoiled == [heap |-> [heap EXCEPT ![state] = StepScribble(@)], ret |-> NoRef]
    IN  CASE node_fn = "inplace" -> {inplace}
          [] node_fn = "fresh"   -> {fresh}
          [] node_fn = "flaky"   -> {inplace, raised, spoiled}
          [] OTHER ->
                IF WorkflowRaises(node_fn, heap[state]) THEN {raised}
                ELSE {[heap |-> [heap EXCEPT ![state] = WorkflowWrite(node_fn, @)],
                       ret |-> state]}

\* runner.py 65, the call: node_fn(state, tools) runs to its return or raise
Invoke(r) ==
    /\ pc[r] = "invoke"
    /\ \E out \in StepOutcomes(fr[r].node_fn, fr[r].state) :
         /\ heap' = out.heap
         /\ fr' = [fr EXCEPT ![r].ret = out.ret]
         /\ Goto(r, IF out.ret = NoRef THEN "step_exc" ELSE "step_ok")
    /\ obs' = [obs EXCEPT ![r].attempts = @ + 1]
    /\ UNCHANGED <<node_registry, condition_registry, graphs_store, runs_store,
                   ctx, response, created, queried>>

\* the executed entry is stored over the last entry instead of appended
StepOkOverwritesLast(r) ==
    /\ pc[r] = "step_ok"
    /\ fr' = [fr EXCEPT ![r].state = fr[r].ret]
    /\ LET entry == [node |-> fr[r].current, iteration |-> ctx[r].iteration,
                     event |-> "executed", state |-> model_dump(fr[r].ret)]
           log == ctx[r].log
       IN  SetCtx(r, [ctx[r] EXCEPT !.log =
               IF log = <<>> THEN <<entry>>
               ELSE [log EXCEPT ![Len(log)] = entry]])
    /\ Goto(r, "resolve")
    /\ UNCHANGED <<node_registry, condition_registry, graphs_store, runs_store,
                   heap, obs, response, created, queried>>

\* the entries hold the live state instead of a copy of it: every entry
\* shows what the state holds now
StepOkLogsLiveState(r) ==
    /\ pc[r] = "step_ok"
    /\ fr' = [fr EXCEPT ![r].state = fr[r].ret]
    /\ LET entry == [node |-> fr[r].current, iteration |-> ctx[r].iteration,
                     event |-> "executed", state |-> heap[fr[r].ret]]
           log == Append(ctx[r].log, entry)
       IN  SetCtx(r, [ctx[r] EXCEPT !.log =
               [i \in DOMAIN log |-> [log[i] EXCEPT !.state = heap[fr[r].ret]]]])
    /\ Goto(r, "resolve")
    /\ UNCHANGED <<node_registry, condition_registry, graphs_store, runs_store,
                   heap, obs, response, created, queried>>

\* runner.py 65, the assignment, and 67-75
StepOk(r) ==
    /\ pc[r] = "step_ok"
    /\ fr' = [fr EXCEPT ![r].state = fr[r].ret]
    /\ SetCtx(r, [ctx[r] EXCEPT !.log = Append(@,
            [node |-> fr[r].current, iteration |-> ctx[r].iteration,
             event |-> "executed", state |-> model_dump(fr[r].ret)])])
    /\ Goto(r, "resolve")
    /\ UNCHANGED <<node_registry, condition_registry, graphs_store, runs_store,
                   heap, obs, response, created, queried>>

\* runner.py 76-77
ExcStatus(r) ==
    /\ pc[r] = "step_exc"
    /\ SetCtx(r, [ctx[r] EXCEPT !.status = "failed"])
    /\ Goto(r, "exc_log")
    /\ UNCHANGED <<node_registry, condition_registry, graphs_store, runs_store,
                   heap, fr, obs, response, created, queried>>

\* the except block without its break: the loop goes on to the edge
ExcLogNoBreak(r) ==
    /\ pc[r] = "exc_log"
    /\ SetCtx(r, [ctx[r] EXCEPT !.log = Append(@,
            [node |-> fr[r].current, iteration |-> ctx[r].iteration,
             event |-> "error", error |-> "exc"])])
    /\ Goto(r, "resolve")
    /\ UNCHANGED <<node_registry, condition_registry, graphs_store, runs_store,
                   heap, fr, obs, response, created, queried>>

\* runner.py 78-86
ExcLog(r) ==
    /\ pc[r] = "exc_log"
    /\ SetCtx(r, [ctx[r] EXCEPT !.log = Append(@,
            [node |-> fr[r].current, iteration |-> ctx[r].iteration,
             event |-> "error", error |-> "exc"])])
    /\ Goto(r, "finalize")
    /\ UNCHANGED <<node_registry, condition_registry, graphs_store, runs_store,
                   heap, fr, obs, response, created, queried>>

\* branch resolution inside the try block: a predicate that is missing or
\* raises is handled as a failure of the step
ResolveNextFailsOnBadPredicate(r) ==
    /\ pc[r] = "resolve"
    /\ LET edges == fr[r].graph.edges
       IN  IF fr[r].current \notin DOMAIN edges
           THEN /\ fr' = fr
                /\ Goto(r, "no_edge")
           ELSE LET edge == edges[fr[r].current]
                    bad == \E i \in DOMAIN edge.branches :
                              DictGet(condition_registry, edge.branches[i].condition)
                                  \in {None, "raise"}
                    next_node == compute_next_node(edge, fr[r].state)
                IN  /\ fr' = [fr EXCEPT ![r].next_node = next_node]
                    /\ Goto(r, IF bad THEN "step_exc"
                               ELSE IF next_node = None THEN "no_next" ELSE "advance")
    /\ UNCHANGED <<node_registry, condition_registry, graphs_store, runs_store,
                   heap, ctx, obs, response, created, queried>>

\* the cap tested ahead of the edge lookup
ResolveNextChecksCapFirst(r) ==
    /\ pc[r] = "resolve"
    /\ LET edges == fr[r].graph.edges
       IN  IF CapReached(ctx[r].iteration)
           THEN /\ fr' = fr
                /\ Goto(r, "cap")
           ELSE IF fr[r].current \notin DOMAIN edges
           THEN /\ fr' = fr
                /\ Goto(r, "no_edge")
           ELSE LET next_node == compute_next_node(edges[fr[r].current], fr[r].state)
                IN  /\ fr' = [fr EXCEPT ![r].next_node = next_node]
                    /\ Goto(r, IF next_node = None THEN "no_next" ELSE "advance")
    /\ UNCHANGED <<node_registry, condition_registry, graphs_store, runs_store,
                   heap, ctx, obs, response, created, queried>>

\* runner.py 89-90 and 95-96
ResolveNext(r) ==
    /\ pc[r] = "resolve"
    /\ LET edges == fr[r].graph.edges
       IN  IF fr[r].current \notin DOMAIN edges
           THEN /\ fr' = fr
                /\ Goto(r, "no_edge")
           ELSE LET next_node == compute_next_node(edges[fr[r].current], fr[r].state)
                IN  /\ fr' = [fr EXCEPT ![r].next_node = next_node]
                    /\ Goto(r, IF next_node = None THEN "no_next" ELSE "advance")
    /\ UNCHANGED <<node_registry, condition_registry, graphs_store, runs_store,
                   heap, ctx, obs, response, created, queried>>

\* the branch for a node without an edge leaves the loop without a status
CompleteNoEdgeKeepsRunning(r) ==
    /\ pc[r] = "no_edge"
    /\ Goto(r, "finalize")
    /\ UNCHANGED <<node_registry, condition_registry, graphs_store, runs_store,
                   heap, ctx, fr, obs, response, created, queried>>

\* runner.py 92-93
CompleteNoEdge(r) ==
    /\ pc[r] = "no_edge"
    /\ SetCtx(r, [ctx[r] EXCEPT !.status = "completed"])
    /\ Goto(r, "finalize")
    /\ UNCHANGED <<node_registry, condition_registry, graphs_store, runs_store,
                   heap, fr, obs, response, created, queried>>

\* runner.py 97-98
CompleteNoNext(r) ==
    /\ pc[r] = "no_next"
    /\ SetCtx(r, [ctx[r] EXCEPT !.status = "completed"])
    /\ Goto(r, "finalize")
    /\ UNCHANGED <<node_registry, condition_registry, graphs_store, runs_store,
                   heap, fr, obs, response, created, queried>>

\* the move to the target without the assignment to context.current_node
AdvanceKeepsContextNode(r) ==
    /\ pc[r] = "advance"
    /\ fr' = [fr EXCEPT ![r].current = fr[r].next_node]
    /\ Goto(r, IF CapReached(ctx[r].iteration) THEN "cap" ELSE "loop")
    /\ UNCHANGED <<node_registry, condition_registry, graphs_store, runs_store,
                   heap, ctx, obs, response, created, queried>>

\* runner.py 100-104
Advance(r) ==
    /\ pc[r] = "advance"
    /\ fr' = [fr EXCEPT ![r].current = fr[r].next_node]
    /\ SetCtx(r, [ctx[r] EXCEPT !.current_node = fr[r].next_node])
    /\ Goto(r, IF CapReached(ctx[r].iteration) THEN "cap" ELSE "loop")
    /\ UNCHANGED <<node_registry, condition_registry, graphs_store, runs_store,
                   heap, obs, response, created, queried>>

\* runner.py 105-106
StopMax(r) ==
    /\ pc[r] = "cap"
    /\ SetCtx(r, [ctx[r] EXCEPT !.status = "stopped_max_iterations"])
    /\ Goto(r, "finalize")
    /\ UNCHANGED <<node_registry, condition_registry, graphs_store, runs_store,
                   heap, fr, obs, response, created, queried>>

\* runner.py 109
Finalize(r) ==
    /\ pc[r] = "finalize"
    /\ SetCtx(r, [ctx[r] EXCEPT !.final_state = fr[r].state])
    /\ Goto(r, "return")
    /\ UNCHANGED <<node_registry, condition_registry, graphs_store, runs_store,
                   heap, fr, obs, response, created, queried>>

\* ------------------------------------------------------ run_graph_endpoint
\* runner.py 110, routes.py 86-89: run_graph hands back the context object
\* and the endpoint stores that object under its run_id
Persist(r) ==
    /\ pc[r] = "return"
    /\ runs_store' = DictPut(runs_store, ctx[r].run_id, r)
    /\ Goto(r, "respond")
    /\ UNCHANGED <<node_registry, condition_registry, graphs_store, heap,
                   ctx, fr, obs, response, created, queried>>

\* the response takes the log out of the stored context
RespondDrainsLog(r) ==
    /\ pc[r] = "respond"
    /\ response' = [response EXCEPT ![r] =
            {[run_id |-> r,
              final_state |-> IF ctx[r].final_state # NoRef
                              THEN model_dump(ctx[r].final_state) ELSE <<>>,
              logs |-> ctx[r].log,
              status |-> ctx[r].status]}]
    /\ SetCtx(r, [ctx[r] EXCEPT !.log = <<>>])
    /\ Goto(r, "done")
    /\ UNCHANGED <<node_registry, condition_registry, graphs_store, runs_store,
                   heap, fr, obs, created, queried>>

\* routes.py 91-96
Respond(r) ==
    /\ pc[r] = "respond"
    /\ response' = [response EXCEPT ![r] =
            {[run_id |-> r,
              final_state |-> IF ctx[r].final_state # NoRef
                              THEN model_dump(ctx[r].final_state) ELSE <<>>,
              logs |-> ctx[r].log,
              status |-> ctx[r].status]}]
    /\ Goto(r, "done")
    /\ UNCHANGED <<node_registry, condition_registry, graphs_store, runs_store,
                   heap, ctx, fr, obs, created, queried>>

\* ------------------------------------------------------------- create, run
GraphIds == {"g1", "g2"}

Range(seq) == {seq[i] : i \in DOMAIN seq}

HTTPException(status_code, detail) == [status_code |-> status_code, detail |-> detail]

\* the validation without its check of the branch targets
validate_graph_definition_skips_branches(definition) ==
    LET nodes == Range(definition.nodes)
        edges == definition.edges
    IN  IF definition.start_node \notin nodes
        THEN {HTTPException(400, "Invalid graph")}
        ELSE IF \E edge_node \in DOMAIN edges : edge_node \notin nodes
        THEN {HTTPException(400, "Invalid graph")}
        ELSE IF \E edge_node \in DOMAIN edges :
                   /\ edges[edge_node].default_next # None
                   /\ edges[edge_node].default_next \notin nodes
        THEN {HTTPException(400, "Invalid graph")}
        ELSE {}

\* routes.py 14-44: the exception raised, none when the definition passes
validate_graph_definition(definition) ==
    LET nodes == Range(definition.nodes)
        edges == definition.edges
    IN  IF definition.start_node \notin nodes
        THEN {HTTPException(400, "Invalid graph")}
        ELSE IF \E edge_node \in DOMAIN edges : edge_node \notin nodes
        THEN {HTTPException(400, "Invalid graph")}
        ELSE IF \E edge_node \in DOMAIN edges :
                   \/ /\ edges[edge_node].default_next # None
                      /\ edges[edge_node].default_next \notin nodes
                   \/ \E i \in DOMAIN edges[edge_node].branches :
                          edges[edge_node].branches[i].target \notin nodes
        THEN {HTTPException(400, "Invalid graph")}
        ELSE {}

\* routes.py 47-57; uuid4() yields an id not in use
create_graph(definition) ==
    LET raised == validate_graph_definition(definition)
    IN  IF raised # {}
        THEN /\ created' = {[definition |-> definition, response |-> error] :
                               error \in raised}
             /\ UNCHANGED graphs_store
        ELSE \E graph_id \in GraphIds \ DOMAIN graphs_store :
                LET clean_graph == [definition EXCEPT !.graph_id = graph_id]
                IN  /\ graphs_store' = DictPut(graphs_store, graph_id, clean_graph)
                    /\ created' = {[definition |-> definition,
                                    response |-> [graph_id |-> graph_id]]}

Create(definition) ==
    /\ create_graph(definition)
    /\ UNCHANGED <<node_registry, condition_registry, runs_store, heap, ctx, fr,
                   pc, obs, response, queried>>

\* WorkflowState.model_validate succeeds on the data
Parses(initial_state_data) == DOMAIN initial_state_data = DOMAIN WorkflowState(0)

Reject(r, error) ==
    /\ response' = [response EXCEPT ![r] = {error}]
    /\ Goto(r, "rejected")
    /\ UNCHANGED <<heap, ctx, fr>>

\* the parsed state kept by the endpoint and handed to every run
RunRequestSharesState(r, payload) ==
    /\ pc[r] = "idle"
    /\ LET graph_id == DictGet(payload, "graph_id")
       IN  IF graph_id \in {None, ""}
           THEN Reject(r, HTTPException(400, "graph_id is required"))
           ELSE IF "state" \notin DOMAIN payload
           THEN Reject(r, HTTPException(400, "state is required"))
           ELSE IF graph_id \notin DOMAIN graphs_store
           THEN Reject(r, HTTPException(404, "Graph not found"))
           ELSE IF ~Parses(payload.state)
           THEN Reject(r, HTTPException(400, "Invalid state"))
           ELSE /\ heap' = IF heap = <<>> THEN <<payload.state>> ELSE heap
                /\ fr' = [fr EXCEPT ![r] = Frame(graphs_store[graph_id], 1)]
                /\ SetCtx(r, RunContext(r, graph_id))
                /\ Goto(r, "start")
                /\ UNCHANGED response
    /\ obs' = [obs EXCEPT ![r] =
                  [(IF pc'[r] = "rejected" THEN obs[r] ELSE Observed(payload.state))
                      EXCEPT !.request = payload]]
    /\ UNCHANGED <<node_registry, condition_registry, graphs_store, runs_store,
                   created, queried>>

\* the record stored as soon as it is built, before run_graph is called
RunRequestStoresEarly(r, payload) ==
    /\ pc[r] = "idle"
    /\ LET graph_id == DictGet(payload, "graph_id")
       IN  IF graph_id \in {None, ""}
           THEN Reject(r, HTTPException(400, "graph_id is required"))
           ELSE IF "state" \notin DOMAIN payload
           THEN Reject(r, HTTPException(400, "state is required"))
           ELSE IF graph_id \notin DOMAIN graphs_store
           THEN Reject(r, HTTPException(404, "Graph not found"))
           ELSE IF ~Parses(payload.state)
           THEN Reject(r, HTTPException(400, "Invalid state"))
           ELSE /\ heap' = Append(heap, payload.state)
                /\ fr' = [fr EXCEPT ![r] = Frame(graphs_store[graph_id], Len(heap) + 1)]
                /\ SetCtx(r, RunContext(r, graph_id))
                /\ Goto(r, "start")
                /\ UNCHANGED response
    /\ obs' = [obs EXCEPT ![r] =
                  [(IF pc'[r] = "rejected" THEN obs[r] ELSE Observed(payload.state))
                      EXCEPT !.request = payload]]
    /\ runs_store' = IF pc'[r] = "rejected" THEN runs_store
                     ELSE DictPut(runs_store, r, r)
    /\ UNCHANGED <<node_registry, condition_registry, graphs_store, created, queried>>

\* the record built and stored before the state is parsed
RunRequestRecordsRejected(r, payload) ==
    /\ pc[r] = "idle"
    /\ LET graph_id == DictGet(payload, "graph_id")
       IN  IF graph_id \in {None, ""}
           THEN /\ Reject(r, HTTPException(400, "graph_id is required"))
                /\ UNCHANGED runs_store
           ELSE IF "state" \notin DOMAIN payload
           THEN /\ Reject(r, HTTPException(400, "state is required"))
                /\ UNCHANGED runs_store
           ELSE IF graph_id \notin DOMAIN graphs_store
           THEN /\ Reject(r, HTTPException(404, "Graph not found"))
                /\ UNCHANGED runs_store
           ELSE IF ~Parses(payload.state)
           THEN /\ response' = [response EXCEPT ![r] =
                                    {HTTPException(400, "Invalid state")}]
                /\ Goto(r, "rejected")
                /\ SetCtx(r, RunContext(r, graph_id))
                /\ runs_store' = DictPut(runs_store, r, r)
                /\ UNCHANGED <<heap, fr>>
           ELSE /\ heap' = Append(heap, payload.state)
                /\ fr' = [fr EXCEPT ![r] = Frame(graphs_store[graph_id], Len(heap) + 1)]
                /\ SetCtx(r, RunContext(r, graph_id))
                /\ Goto(r, "start")
                /\ UNCHANGED <<response, runs_store>>
    /\ obs' = [obs EXCEPT ![r] =
                  [(IF pc'[r] = "rejected" THEN obs[r] ELSE Observed(payload.state))
                      EXCEPT !.request = payload]]
    /\ UNCHANGED <<node_registry, condition_registry, graphs_store, created, queried>>

\* routes.py 63-83: a run request up to the call of run_graph; a key the
\* payload lacks, or holds null for, is absent from the payload
RunRequest(r, payload) ==
    /\ pc[r] = "idle"
    /\ LET graph_id == DictGet(payload, "graph_id")
       IN  IF graph_id \in {None, ""}
           THEN Reject(r, HTTPException(400, "graph_id is required"))
           ELSE IF "state" \notin DOMAIN payload
           THEN Reject(r, HTTPException(400, "state is required"))
           ELSE IF graph_id \notin DOMAIN graphs_store
           THEN Reject(r, HTTPException(404, "Graph not found"))
           ELSE IF ~Parses(payload.state)
           THEN Reject(r, HTTPException(400, "Invalid state"))
           ELSE /\ heap' = Append(heap, payload.state)
                /\ fr' = [fr EXCEPT ![r] = Frame(graphs_store[graph_id], Len(heap) + 1)]
                /\ SetCtx(r, RunContext(r, graph_id))
                /\ Goto(r, "start")
                /\ UNCHANGED response
    /\ obs' = [obs EXCEPT ![r] =
                  [(IF pc'[r] = "rejected" THEN obs[r] ELSE Observed(payload.state))
                      EXCEPT !.request = payload]]
    /\ UNCHANGED <<node_registry, condition_registry, graphs_store, runs_store,
                   created, queried>>

\* routes.py 99-113
GetState(run_id) ==
    /\ queried' =
          IF run_id \notin DOMAIN runs_store
          THEN {[run_id |-> run_id, response |-> HTTPException(404, "Run not found")]}
          ELSE LET run_ctx == ctx[runs_store[run_id]]
               IN  {[run_id |-> run_id,
                     response |-> [run_id |-> run_ctx.run_id,
                                   graph_id |-> run_ctx.graph_id,
                                   current_node |-> run_ctx.current_node,
                                   iteration |-> run_ctx.iteration,
                                   logs |-> run_ctx.log,
                                   status |-> run_ctx.status]]}
    /\ UNCHANGED <<node_registry, condition_registry, graphs_store, runs_store,
                   heap, ctx, fr, pc, obs, response, created>>

\* ------------------------------------------------------------ specification
\* Branch lists of the graphs a run is started on: no branch, or one branch
\* on condA.
RunBranchLists ==
    {<<>>} \cup {<<b>> : b \in {c \in BranchCondition : c.condition = "condA"}}

\* One run request, r1, has been accepted (routes.py 63-83): its graph is in
\* graphs_store, its initial state is parsed, its RunContext is fresh. No
\* request has arrived for the other run_id: its RunContext is shown as the
\* endpoint will construct it, and nothing acts on it.
Init ==
    /\ node_registry \in Dicts(Nodes, StepKinds)
    /\ condition_registry \in Dicts({"condA"}, CondKinds)
    /\ \E g \in GraphDefinition("g1", RunBranchLists) :
         /\ graphs_store = [gid \in {"g1"} |-> g]
         /\ fr = [r \in RunIds |-> IF r = "r1" THEN Frame(g, 1) ELSE NoFrame]
    /\ runs_store = <<>>
    /\ \E t \in Thresholds :
         /\ heap = <<WorkflowState(t)>>
         /\ obs = [r \in RunIds |-> Observed(WorkflowState(t))]
    /\ ctx = [r \in RunIds |-> RunContext(r, "g1")]
    /\ pc = [r \in RunIds |-> IF r = "r1" THEN "start" ELSE "idle"]
    /\ response = [r \in RunIds |-> {}]
    /\ created = {}
    /\ queried = {}

RunStep(r) ==
    \/ Start(r)
    \/ LoopTop(r)
    \/ MissingStatus(r)
    \/ MissingLog(r)
    \/ Invoke(r)
    \/ StepOk(r)
    \/ ExcStatus(r)
    \/ ExcLog(r)
    \/ ResolveNext(r)
    \/ CompleteNoEdge(r)
    \/ CompleteNoNext(r)
    \/ Advance(r)
    \/ StopMax(r)
    \/ Finalize(r)
    \/ Persist(r)
    \/ Respond(r)

Next == \E r \in RunIds : RunStep(r)

Spec == Init /\ [][Next]_vars

\* Branch resolution on its own: a run whose first step, at node a, has just
\* succeeded and been logged, about to resolve the edge of a; the edge, the
\* predicate registry and the threshold in the state range over all values.
CnnInit ==
    /\ node_registry = [n \in Nodes |-> "inplace"]
    /\ condition_registry \in Dicts(Conds, CondKinds)
    /\ runs_store = <<>>
    /\ response = [r \in RunIds |-> {}]
    /\ created = {}
    /\ queried = {}
    /\ pc = [r \in RunIds |-> IF r = "r1" THEN "resolve" ELSE "idle"]
    /\ \E edge \in EdgeDef(SeqsUpTo(BranchCondition, MaxBranches)),
          t \in {1, LowThreshold} :
         LET g == [graph_id |-> "g1", start_node |-> "a", nodes |-> <<"a", "b">>,
                   edges |-> [n \in {"a"} |-> edge]]
             v == StepWrite(WorkflowState(t))
             entry == [node |-> "a", iteration |-> 1, event |-> "executed", state |-> v]
         IN  /\ graphs_store = [gid \in {"g1"} |-> g]
             /\ heap = <<v>>
             /\ fr = [r \in RunIds |->
                        IF r = "r1"
                        THEN [Frame(g, 1) EXCEPT !.state = 1, !.current = "a",
                                                 !.node_fn = "inplace", !.ret = 1]
                        ELSE NoFrame]
             /\ ctx = [r \in RunIds |->
                        IF r = "r1"
                        THEN [RunContext(r, "g1") EXCEPT !.current_node = "a",
                                  !.iteration = 1, !.log = <<entry>>]
                        ELSE RunContext(r, "g1")]
             /\ obs = [r \in RunIds |->
                        IF r = "r1"
                        THEN [Observed(WorkflowState(t)) EXCEPT !.attempts = 1]
                        ELSE Observed(WorkflowState(t))]

CnnNext == \E r \in RunIds : ResolveNext(r)

SpecCnn == CnnInit /\ [][CnnNext]_vars

\* The event loop resumes every run that can take a step, and every step
\* invocation returns or raises.
LiveSpec == Spec /\ \A r \in RunIds : WF_vars(RunStep(r))

\* The code-review workflow graph, with the predicate of its loop-back branch
\* decided by the state: "below" is true while fewer than threshold step
\* writes have been made, so that the threshold fixes the evaluate_quality
\* visit at which the predicate turns false.
ReviewNodes ==
    {"extract_functions", "check_complexity", "detect_issues",
     "suggest_improvements", "evaluate_quality"}

\* the loop-back branch wired to suggest_improvements
get_code_review_graph_skips_detect(graph_id) ==
    [graph_id |-> graph_id,
     start_node |-> "extract_functions",
     nodes |-> <<"extract_functions", "check_complexity", "detect_issues",
                 "suggest_improvements", "evaluate_quality">>,
     edges |->
        [n \in ReviewNodes |->
            CASE n = "extract_functions" ->
                     [default_next |-> "check_complexity", branches |-> <<>>]
              [] n = "check_complexity" ->
                     [default_next |-> "detect_issues", branches |-> <<>>]
              [] n = "detect_issues" ->
                     [default_next |-> "suggest_improvements", branches |-> <<>>]
              [] n = "suggest_improvements" ->
                     [default_next |-> "evaluate_quality", branches |-> <<>>]
              [] n = "evaluate_quality" ->
                     [default_next |-> None,
                      branches |-> <<[condition |-> "quality_below_threshold",
                                      target |-> "suggest_improvements"]>>]]]

\* code_review.py 99-121
get_code_review_graph(graph_id) ==
    [graph_id |-> graph_id,
     start_node |-> "extract_functions",
     nodes |-> <<"extract_functions", "check_complexity", "detect_issues",
                 "suggest_improvements", "evaluate_quality">>,
     edges |->
        [n \in ReviewNodes |->
            CASE n = "extract_functions" ->
                     [default_next |-> "check_complexity", branches |-> <<>>]
              [] n = "check_complexity" ->
                     [default_next |-> "detect_issues", branches |-> <<>>]
              [] n = "detect_issues" ->
                     [default_next |-> "suggest_improvements", branches |-> <<>>]
              [] n = "suggest_improvements" ->
                     [default_next |-> "evaluate_quality", branches |-> <<>>]
              [] n = "evaluate_quality" ->
                     [default_next |-> None,
                      branches |-> <<[condition |-> "quality_below_threshold",
                                      target |-> "detect_issues"]>>]]]

ReviewThresholds == 1..(MAX_ITERATIONS + 1)

ReviewInit ==
    /\ node_registry \in [ReviewNodes -> {"inplace", "fresh"}]
    /\ condition_registry = [c \in {"quality_below_threshold"} |-> "below"]
    /\ LET g == get_code_review_graph("g1")
       IN  /\ graphs_store = [gid \in {"g1"} |-> g]
           /\ fr = [r \in RunIds |-> IF r = "r1" THEN Frame(g, 1) ELSE NoFrame]
    /\ runs_store = <<>>
    /\ \E t \in ReviewThresholds :
         /\ heap = <<WorkflowState(t)>>
         /\ obs = [r \in RunIds |-> Observed(WorkflowState(t))]
    /\ ctx = [r \in RunIds |-> RunContext(r, "g1")]
    /\ pc = [r \in RunIds |-> IF r = "r1" THEN "start" ELSE "idle"]
    /\ response = [r \in RunIds |-> {}]
    /\ created = {}
    /\ queried = {}

\* every step of the workflow is registered and succeeds, and every node has
\* an edge: the other actions of run_graph have no part in these runs
ReviewStep(r) ==
    \/ Start(r)
    \/ LoopTop(r)
    \/ Invoke(r)
    \/ StepOk(r)
    \/ ResolveNext(r)
    \/ CompleteNoNext(r)
    \/ Advance(r)
    \/ StopMax(r)
    \/ Finalize(r)
    \/ Persist(r)
    \/ Respond(r)

ReviewNext == \E r \in RunIds : ReviewStep(r)

SpecReview == ReviewInit /\ [][ReviewNext]_vars

\* Create requests and one run request up to the call of run_graph. Definitions
\* list the nodes a and b; the name x stands for a node the list lacks.
CreateEdgeDefs ==
    [default_next : {None, "b", "x"},
     branches : {<<>>} \cup {<<[condition |-> "condA", target |-> t]>> : t \in {"a", "x"}}]

CreateDefinitions ==
    [graph_id : {"client"},
     start_node : {"a", "x"},
     nodes : {<<"a", "b">>},
     edges : {<<>>} \cup {[n \in {k} |-> e] : k \in {"a", "x"}, e \in CreateEdgeDefs}]

\* payloads of a run request: graph_id absent, empty, or an id; state absent,
\* unparsable, or a state
Payloads(states) ==
    LET ids == [graph_id : {""} \cup GraphIds]
        sts == [state : states \cup {[data |-> "bad"]}]
    IN  {<<>>} \cup ids \cup sts
            \cup {[k \in {"graph_id", "state"} |->
                      IF k = "graph_id" THEN i.graph_id ELSE st.state] :
                  i \in ids, st \in sts}

ApiInit ==
    /\ node_registry = [n \in Nodes |-> "inplace"]
    /\ condition_registry = <<>>
    /\ graphs_store = <<>>
    /\ runs_store = <<>>
    /\ heap = <<>>
    /\ fr = [r \in RunIds |-> NoFrame]
    /\ obs = [r \in RunIds |-> Observed(WorkflowState(LowThreshold))]
    /\ ctx = [r \in RunIds |-> RunContext(r, "g1")]
    /\ pc = [r \in RunIds |-> "idle"]
    /\ response = [r \in RunIds |-> {}]
    /\ created = {}
    /\ queried = {}

ApiNext ==
    \/ \E definition \in CreateDefinitions : Create(definition)
    \/ \E payload \in Payloads({WorkflowState(LowThreshold)}) :
          RunRequest("r1", payload)

SpecApi == ApiInit /\ [][ApiNext]_vars

\* Two run requests on one stored graph, their runs interleaved statement by
\* statement. The graph loops only through the branch of a, whose predicate
\* turns false after threshold step writes; every registered step succeeds,
\* in place or with a new object; the runs end before the iteration cap.
ConcGraphs ==
    {g \in GraphDefinition("g1", RunBranchLists) :
        /\ "a" \in DOMAIN g.edges
        /\ g.edges["a"].default_next = None
        /\ g.edges["a"].branches # <<>>
        /\ "b" \in DOMAIN g.edges => g.edges["b"].default_next # "b"}

ConcInit ==
    /\ node_registry \in Dicts(Nodes, {"inplace", "fresh"})
    /\ condition_registry = [c \in {"condA"} |-> "below"]
    /\ \E g \in ConcGraphs : graphs_store = [gid \in {"g1"} |-> g]
    /\ runs_store = <<>>
    /\ heap = <<>>
    /\ fr = [r \in RunIds |-> NoFrame]
    /\ obs = [r \in RunIds |-> Observed(WorkflowState(LowThreshold))]
    /\ ctx = [r \in RunIds |-> RunContext(r, "g1")]
    /\ pc = [r \in RunIds |-> "idle"]
    /\ response = [r \in RunIds |-> {}]
    /\ created = {}
    /\ queried = {}

ConcStep(r) ==
    \/ \E payload \in Payloads({WorkflowState(1), WorkflowState(LowThreshold)}) :
          RunRequest(r, payload)
    \/ Start(r)
    \/ LoopTop(r)
    \/ MissingStatus(r)
    \/ MissingLog(r)
    \/ Invoke(r)
    \/ StepOk(r)
    \/ ResolveNext(r)
    \/ CompleteNoEdge(r)
    \/ CompleteNoNext(r)
    \/ Advance(r)
    \/ Finalize(r)
    \/ Persist(r)
    \/ Respond(r)

ConcNext == \E r \in RunIds : ConcStep(r)

SpecConc == ConcInit /\ [][ConcNext]_vars

\* Run requests, their runs and state queries, interleaved; the queries name
\* the id of either run, or an id no run has.
QueryInit ==
    /\ ConcInit
    /\ node_registry \in Dicts(Nodes, {"inplace"})

QueryNext ==
    \/ \E r \in RunIds : ConcStep(r)
    \/ \E run_id \in RunIds \cup {"unknown"} : GetState(run_id)

SpecQuery == QueryInit /\ [][QueryNext]_vars

\* The registered code-review workflow on its graph: the steps and the
\* predicate of code_review.py. The initial data may carry code, a string
\* with some functions and some length or a value that is not a string, and
\* a quality_threshold, a number or a value that is not a number.
FunctionCounts == {0, 10, 13, 17, 21}

CodeLens == {0, 600}

WorkflowCodes ==
    {CodeValue(k, len) : k \in FunctionCounts, len \in CodeLens} \cup {IntValue(123)}

WorkflowThresholds ==
    {IntValue(t) : t \in {0, 35, 70, 101}} \cup {[type |-> "str", value |-> "high"]}

WorkflowInputs ==
    LET codes == [code : WorkflowCodes]
        thresholds == [quality_threshold : WorkflowThresholds]
    IN  {<<>>} \cup codes \cup thresholds
            \cup {[k \in {"code", "quality_threshold"} |->
                      IF k = "code" THEN c.code ELSE t.quality_threshold] :
                  c \in codes, t \in thresholds}

WorkflowInit ==
    /\ node_registry = [n \in ReviewNodes |-> n]
    /\ condition_registry =
          [c \in {"quality_below_threshold"} |-> "quality_below_threshold"]
    /\ LET g == get_code_review_graph("g1")
       IN  /\ graphs_store = [gid \in {"g1"} |-> g]
           /\ fr = [r \in RunIds |-> IF r = "r1" THEN Frame(g, 1) ELSE NoFrame]
    /\ runs_store = <<>>
    /\ \E data \in WorkflowInputs :
         /\ heap = <<data>>
         /\ obs = [r \in RunIds |-> Observed(data)]
    /\ ctx = [r \in RunIds |-> RunContext(r, "g1")]
    /\ pc = [r \in RunIds |-> IF r = "r1" THEN "start" ELSE "idle"]
    /\ response = [r \in RunIds |-> {}]
    /\ created = {}
    /\ queried = {}

\* every node of the graph is registered and has an edge
WorkflowStep(r) ==
    \/ Start(r)
    \/ LoopTop(r)
    \/ Invoke(r)
    \/ StepOk(r)
    \/ ExcStatus(r)
    \/ ExcLog(r)
    \/ ResolveNext(r)
    \/ CompleteNoNext(r)
    \/ Advance(r)
    \/ StopMax(r)
    \/ Finalize(r)
    \/ Persist(r)
    \/ Respond(r)

WorkflowNext == \E r \in RunIds : WorkflowStep(r)

SpecWorkflow == WorkflowInit /\ [][WorkflowNext]_vars

\* ------------------------------------------------------------ properties
TerminalStatuses == {"completed", "failed", "stopped_max_iterations"}

\* run_graph has returned to the endpoint
Returned(r) == pc[r] \in {"return", "respond", "done"}

Last(seq) == seq[Len(seq)]

Events(log) == {log[i].event : i \in DOMAIN log}

Targets(edge) ==
    ({edge.default_next} \cup {edge.branches[i].target : i \in DOMAIN edge.branches})
        \ {None}

RECURSIVE Closure(_, _)
Closure(graph, S) ==
    LET more == S \cup UNION {Targets(graph.edges[n]) : n \in S \cap DOMAIN graph.edges}
    IN  IF more = S THEN S ELSE Closure(graph, more)

\* Every node the graph can lead to from start_node has a step that always
\* succeeds and an edge whose resolution yields a target whatever the
\* predicates do: a cycle with no exit.
NoExit(graph) ==
    \A n \in Closure(graph, {graph.start_node}) :
        /\ DictGet(node_registry, n) \in {"inplace", "fresh"}
        /\ n \in DOMAIN graph.edges
        /\ graph.edges[n].default_next # None

\* C1: a graph with a cycle and no exit, all of whose steps succeed, ends with
\* status stopped_max_iterations, iteration = 20, and a final_state that is
\* the initial state after exactly 20 step executions.
C1_CapEnforcement ==
    \A r \in RunIds :
        (Returned(r) /\ NoExit(fr[r].graph)) =>
            /\ ctx[r].status = "stopped_max_iterations"
            /\ ctx[r].iteration = MAX_ITERATIONS
            /\ Len(ctx[r].log) = MAX_ITERATIONS
            /\ Events(ctx[r].log) = {"executed"}
            /\ ctx[r].final_state # NoRef
            /\ heap[ctx[r].final_state] =
                   [obs[r].given EXCEPT !.n = @ + MAX_ITERATIONS]

C1_Witness ==
    \E r \in RunIds :
        /\ Returned(r)
        /\ NoExit(fr[r].graph)
        /\ Closure(fr[r].graph, {"a"}) = {"a", "b"}
        /\ ctx[r].status = "stopped_max_iterations"

\* C2: iteration never exceeds MAX_ITERATIONS, and on return it equals the
\* number of node-execution attempts the run has made.
C2_IterationAccounting ==
    \A r \in RunIds :
        /\ ctx[r].iteration <= MAX_ITERATIONS
        /\ Returned(r) => ctx[r].iteration = obs[r].attempts

C2_Witness ==
    \E r \in RunIds :
        /\ Returned(r)
        /\ obs[r].attempts = 2
        /\ Last(ctx[r].log).event = "missing_node"

\* C3: every run that has started returns, and on return its status is one of
\* the three terminal statuses, never running.
C3_Termination ==
    /\ \A r \in RunIds : (pc[r] = "start") ~> Returned(r)
    /\ [](\A r \in RunIds : Returned(r) => ctx[r].status \in TerminalStatuses)

C3_Witness ==
    \E r \in RunIds :
        /\ pc[r] = "done"
        /\ ctx[r].status = "completed"
        /\ ctx[r].iteration = MAX_ITERATIONS

\* C4: when a step raises, the run ends failed with one error entry, and
\* final_state has the contents the state had before the failed invocation.
C4_FailedStepDiscarded ==
    \A r \in RunIds :
        (Returned(r) /\ "error" \in Events(ctx[r].log)) =>
            /\ ctx[r].status = "failed"
            /\ Cardinality({i \in DOMAIN ctx[r].log : ctx[r].log[i].event = "error"}) = 1
            /\ heap[ctx[r].final_state] = obs[r].before

\* C5: when the step of the node being attempted is not registered, the run
\* ends failed, its last log entry is the missing_node entry of that node and
\* iteration, and the state is as it was before the attempt; an unregistered
\* start_node gives iteration 1, one log entry, and the initial state.
C5_MissingNode ==
    \A r \in RunIds :
        /\ (Returned(r) /\ fr[r].node_fn = None) =>
              /\ ctx[r].status = "failed"
              /\ Last(ctx[r].log).event = "missing_node"
              /\ Last(ctx[r].log).node = ctx[r].current_node
              /\ Last(ctx[r].log).iteration = ctx[r].iteration
              /\ Len(ctx[r].log) = ctx[r].iteration
              /\ heap[ctx[r].final_state] = obs[r].before
        /\ (Returned(r) /\ fr[r].graph.start_node \notin DOMAIN node_registry) =>
              /\ ctx[r].status = "failed"
              /\ ctx[r].iteration = 1
              /\ Len(ctx[r].log) = 1
              /\ ctx[r].log[1].event = "missing_node"
              /\ ctx[r].final_state = fr[r].initial_state
              /\ heap[ctx[r].final_state] = obs[r].given

C5_Witness ==
    \E r \in RunIds :
        /\ Returned(r)
        /\ fr[r].node_fn = None
        /\ ctx[r].iteration = 2
        /\ ctx[r].final_state # fr[r].initial_state

Min(S) == CHOOSE x \in S : \A y \in S : x <= y

\* the branch's predicate is registered and returns true for st without raising
Matches(branch, st) ==
    /\ branch.condition \in DOMAIN condition_registry
    /\ condition_registry[branch.condition] \in
          {"true"} \cup (IF st.n < st.threshold THEN {"below"} ELSE {})

\* C6: compute_next_node yields the target of the first branch, in declared
\* order, whose predicate is registered and true; branches whose predicate is
\* missing, raises or is false are skipped; with no such branch it yields
\* default_next, which may be None.
C6_BranchPrecedence ==
    \A r \in RunIds :
        pc[r] \in {"no_next", "advance"} =>
            LET edge == fr[r].graph.edges[fr[r].current]
                bs   == edge.branches
                hits == {i \in DOMAIN bs : Matches(bs[i], heap[fr[r].state])}
            IN  fr[r].next_node =
                   IF hits = {} THEN edge.default_next ELSE bs[Min(hits)].target

\* condA raises, condB is true: the second branch is taken
C6_Witness ==
    \E r \in RunIds :
        /\ pc[r] = "advance"
        /\ LET edge == fr[r].graph.edges[fr[r].current]
           IN  /\ Len(edge.branches) = 2
               /\ edge.branches[1].condition = "condA"
               /\ edge.branches[2].condition = "condB"
               /\ DictGet(condition_registry, "condA") = "raise"
               /\ DictGet(condition_registry, "condB") = "true"
               /\ edge.branches[1].target = "a"
               /\ edge.branches[2].target = "b"
               /\ edge.default_next = "a"
               /\ fr[r].next_node = "b"

\* C7: a run fails only on a missing step or a step that raised, never on a
\* predicate; a run all of whose attempts executed ends completed or
\* stopped_max_iterations, whatever the predicates did.
C7_PredicatesNeverFail ==
    \A r \in RunIds :
        /\ ctx[r].status = "failed" => (fr[r].node_fn = None \/ fr[r].ret = NoRef)
        /\ (Returned(r) /\ Events(ctx[r].log) \subseteq {"executed"}) =>
              ctx[r].status \in {"completed", "stopped_max_iterations"}

\* a run that consulted a raising predicate at a and completed
C7_Witness ==
    \E r \in RunIds :
        /\ Returned(r)
        /\ ctx[r].status = "completed"
        /\ "a" \in DOMAIN fr[r].graph.edges
        /\ fr[r].graph.edges["a"].branches # <<>>
        /\ DictGet(condition_registry, "condA") = "raise"
        /\ ctx[r].iteration = 2

\* C8: once the status is no longer running it is not assigned again, and no
\* further attempt is made: iteration and the attempts made stay as they are.
C8_TerminalOnce ==
    [][\A r \in RunIds :
          ctx[r].status # "running" =>
              /\ ctx'[r].status = ctx[r].status
              /\ ctx'[r].iteration = ctx[r].iteration
              /\ obs'[r].attempts = obs[r].attempts
              /\ pc'[r] \notin {"loop", "invoke", "step_ok", "resolve"}]_vars

C8_Witness ==
    \E r \in RunIds :
        /\ pc[r] = "done"
        /\ ctx[r].status = "failed"
        /\ Len(ctx[r].log) = 3

\* C9, as stated: once the status is terminal no field of the record changes.
C9_ImmutableOnceTerminal ==
    [][\A r \in RunIds :
          ctx[r].status \in TerminalStatuses => ctx'[r] = ctx[r]]_vars

\* C9, amended: once run_graph has assigned final_state and returned, no
\* field of the record changes any more, nor do the contents of final_state,
\* neither by the engine nor by the endpoint that stores the record.
C9_ImmutableOnceReturned ==
    [][\A r \in RunIds :
          Returned(r) =>
              /\ ctx'[r] = ctx[r]
              /\ heap'[ctx[r].final_state] = heap[ctx[r].final_state]]_vars

C9_Witness ==
    \E r \in RunIds :
        /\ pc[r] = "done"
        /\ DictGet(runs_store, r) = r
        /\ ctx[r].status = "stopped_max_iterations"
        /\ \E resp \in response[r] : resp.logs = ctx[r].log

\* the contents last produced for a run: the snapshot of its last executed
\* entry, or the contents of the initial state when no step has succeeded
LastProduced(r) ==
    LET done == {i \in DOMAIN ctx[r].log : ctx[r].log[i].event = "executed"}
    IN  IF done = {} THEN obs[r].given
        ELSE ctx[r].log[CHOOSE i \in done : \A j \in done : j <= i].state

\* C10: final_state is unset while the run is executing attempts, and on
\* return it holds what the last successful step returned, or the initial
\* state when no step succeeded.
C10_FinalStateAtTermination ==
    \A r \in RunIds :
        /\ ~Returned(r) => ctx[r].final_state = NoRef
        /\ Returned(r) =>
              /\ ctx[r].final_state # NoRef
              /\ heap[ctx[r].final_state] = LastProduced(r)

IsPrefix(s, t) == Len(s) <= Len(t) /\ SubSeq(t, 1, Len(s)) = s

\* the attempt of the current iteration is under way: counted, not yet logged
AttemptUnderWay(r) ==
    pc[r] \in {"missing", "missing_log", "invoke", "step_ok", "step_exc", "exc_log"}

\* C11: every attempt appends exactly one log entry before the run advances
\* or terminates, so the log is one entry short of iteration while an attempt
\* is under way and as long as iteration otherwise; every earlier log is a
\* prefix of every later log.
C11_LogAppendOnly ==
    /\ [](\A r \in RunIds :
            Len(ctx[r].log) = ctx[r].iteration - (IF AttemptUnderWay(r) THEN 1 ELSE 0))
    /\ [][\A r \in RunIds :
            /\ IsPrefix(ctx[r].log, ctx'[r].log)
            /\ Len(ctx'[r].log) <= Len(ctx[r].log) + 1]_vars

\* an executed entry, then a missing_node entry, and the run has returned
C11_Witness ==
    \E r \in RunIds :
        /\ Returned(r)
        /\ Len(ctx[r].log) = 2
        /\ ctx[r].log[1].event = "executed"
        /\ ctx[r].log[2].event = "missing_node"
        /\ ctx[r].iteration = 2

\* no branch of the graph can match: each predicate is missing, false or raises
NeverMatches(graph) ==
    \A n \in DOMAIN graph.edges :
        \A i \in DOMAIN graph.edges[n].branches :
            DictGet(condition_registry, graph.edges[n].branches[i].condition)
                \in {None, "false", "raise"}

\* the chain of default_next pointers from node n, cut after k nodes
RECURSIVE DefaultChain(_, _, _)
DefaultChain(graph, n, k) ==
    IF k = 0 THEN <<>>
    ELSE <<n>> \o (IF n \notin DOMAIN graph.edges THEN <<>>
                   ELSE IF graph.edges[n].default_next = None THEN <<>>
                   ELSE DefaultChain(graph, graph.edges[n].default_next, k - 1))

LogNodes(log) == [i \in DOMAIN log |-> log[i].node]

\* C12: when no branch can match and every attempt so far executed, the nodes
\* of the log are the chain of default_next pointers from start_node; when the
\* chain ends within 20 nodes the run returns completed with the whole chain
\* in its log.
C12_DefaultChain ==
    \A r \in RunIds :
        (/\ pc[r] # "idle"
         /\ NeverMatches(fr[r].graph)
         /\ Events(ctx[r].log) \subseteq {"executed"}) =>
            LET chain == DefaultChain(fr[r].graph, fr[r].graph.start_node,
                                      MAX_ITERATIONS + 1)
            IN  /\ IsPrefix(LogNodes(ctx[r].log), chain)
                /\ (Returned(r) /\ Len(chain) <= MAX_ITERATIONS) =>
                       /\ ctx[r].status = "completed"
                       /\ LogNodes(ctx[r].log) = chain

\* a -> b by default although a carries a branch, whose predicate raises
C12_Witness ==
    \E r \in RunIds :
        /\ Returned(r)
        /\ ctx[r].status = "completed"
        /\ LogNodes(ctx[r].log) = <<"a", "b">>
        /\ fr[r].graph.edges["a"].branches # <<>>
        /\ fr[r].graph.edges["a"].branches[1].target = "a"
        /\ DictGet(condition_registry, "condA") = "raise"
        /\ Events(ctx[r].log) = {"executed"}

\* the log positions of the visits of node n, and the k-th of them
Visits(log, n) == {i \in DOMAIN log : log[i].node = n}

RECURSIVE Nth(_, _)
Nth(S, k) == IF k = 1 THEN Min(S) ELSE Nth(S \ {Min(S)}, k - 1)

LoopBack == [condition |-> "quality_below_threshold", target |-> "detect_issues"]

\* the loop-back predicate was true on the state the first evaluate_quality
\* returned and false on the state the second returned
TrueThenFalse(log) ==
    LET ev == Visits(log, "evaluate_quality")
    IN  /\ Cardinality(ev) >= 2
        /\ Matches(LoopBack, log[Nth(ev, 1)].state)
        /\ ~Matches(LoopBack, log[Nth(ev, 2)].state)

VisitedTwice(log) ==
    /\ \A n \in {"detect_issues", "suggest_improvements", "evaluate_quality"} :
          Cardinality(Visits(log, n)) = 2
    /\ \A n \in {"extract_functions", "check_complexity"} :
          Cardinality(Visits(log, n)) = 1

\* C13, as stated: on the code-review chain, with the loop-back predicate true
\* at the first evaluate and false at the second, the run visits detect,
\* suggest and evaluate twice and returns completed with iteration 7 and
\* exactly 7 executed entries.
C13_LoopOnceSeven ==
    \A r \in RunIds :
        (Returned(r) /\ TrueThenFalse(ctx[r].log)) =>
            /\ VisitedTwice(ctx[r].log)
            /\ ctx[r].status = "completed"
            /\ ctx[r].iteration = 7
            /\ Len(ctx[r].log) = 7
            /\ Events(ctx[r].log) = {"executed"}

\* C13, amended: the same run makes 8 attempts, the 5 of the chain and the 3
\* of the repeated loop body: iteration 8 and exactly 8 executed entries.
C13_LoopOnceEight ==
    \A r \in RunIds :
        (Returned(r) /\ TrueThenFalse(ctx[r].log)) =>
            /\ VisitedTwice(ctx[r].log)
            /\ ctx[r].status = "completed"
            /\ ctx[r].iteration = 8
            /\ Len(ctx[r].log) = 8
            /\ Events(ctx[r].log) = {"executed"}
            /\ LogNodes(ctx[r].log) =
                  <<"extract_functions", "check_complexity", "detect_issues",
                    "suggest_improvements", "evaluate_quality", "detect_issues",
                    "suggest_improvements", "evaluate_quality">>

C13_Witness ==
    \E r \in RunIds :
        /\ pc[r] = "done"
        /\ TrueThenFalse(ctx[r].log)
        /\ fr[r].graph = get_code_review_graph("g1")
        /\ node_registry["evaluate_quality"] = "inplace"

\* C14: when run_graph has returned, the caller's initial state object has the
\* contents it was given with, and the graph is the one that was handed in.
C14_InputsUnchanged ==
    \A r \in RunIds :
        Returned(r) =>
            /\ heap[fr[r].initial_state] = obs[r].given
            /\ fr[r].graph = graphs_store[ctx[r].graph_id]

\* the target the edge of node n yields on contents st: None without an edge,
\* otherwise the first matching branch's target or the default
ResolvedTarget(graph, n, st) ==
    IF n \notin DOMAIN graph.edges THEN None
    ELSE LET edge == graph.edges[n]
             bs   == edge.branches
             hits == {i \in DOMAIN bs : Matches(bs[i], st)}
         IN  IF hits = {} THEN edge.default_next ELSE bs[Min(hits)].target

\* the last attempt executed and the edge of its node yields a target
LastResolved(r) ==
    /\ ctx[r].log # <<>>
    /\ Last(ctx[r].log).event = "executed"
    /\ ResolvedTarget(fr[r].graph, Last(ctx[r].log).node,
                      Last(ctx[r].log).state) # None

\* C17: no 21st attempt is made or logged; a run returns
\* stopped_max_iterations exactly when its 20th attempt succeeded and the edge
\* of that node yielded a target; when the 20th attempt succeeded without a
\* target the run returns completed, and when it failed, failed.
C17_CapAfterResolution ==
    \A r \in RunIds :
        /\ obs[r].attempts <= MAX_ITERATIONS
        /\ \A i \in DOMAIN ctx[r].log : ctx[r].log[i].iteration <= MAX_ITERATIONS
        /\ Returned(r) =>
              /\ ctx[r].status = "stopped_max_iterations" <=>
                     (ctx[r].iteration = MAX_ITERATIONS /\ LastResolved(r))
              /\ (ctx[r].iteration = MAX_ITERATIONS /\ ~LastResolved(r)) =>
                     ctx[r].status =
                        IF Last(ctx[r].log).event = "executed"
                        THEN "completed" ELSE "failed"

\* the 20th attempt succeeded at a node whose edge yields no target
C17_Witness ==
    \E r \in RunIds :
        /\ pc[r] = "return"
        /\ ctx[r].iteration = MAX_ITERATIONS
        /\ ctx[r].status = "completed"
        /\ Last(ctx[r].log).node \in DOMAIN fr[r].graph.edges
        /\ fr[r].graph.edges[Last(ctx[r].log).node].branches # <<>>

\* C18: while an attempt is being made current_node is the node attempted;
\* on return with completed or failed it is the node of the last log entry;
\* on return with stopped_max_iterations it is the target the last entry's
\* edge yielded, for which no attempt was counted or logged.
C18_CurrentNode ==
    \A r \in RunIds :
        /\ pc[r] \in {"loop", "resolve"} \/ AttemptUnderWay(r) =>
              ctx[r].current_node = fr[r].current
        /\ AttemptUnderWay(r) \/ pc[r] = "resolve" =>
              ctx[r].current_node \in {fr[r].graph.start_node} \cup
                  (IF ctx[r].log = <<>> THEN {}
                   ELSE {ResolvedTarget(fr[r].graph, e.node, e.state) :
                            e \in {ctx[r].log[i] : i \in DOMAIN ctx[r].log}})
        /\ (Returned(r) /\ ctx[r].status \in {"completed", "failed"}) =>
              ctx[r].current_node = Last(ctx[r].log).node
        /\ (Returned(r) /\ ctx[r].status = "stopped_max_iterations") =>
              /\ ctx[r].current_node =
                     ResolvedTarget(fr[r].graph, Last(ctx[r].log).node,
                                    Last(ctx[r].log).state)
              /\ ctx[r].current_node # None
              /\ Len(ctx[r].log) = MAX_ITERATIONS
              /\ obs[r].attempts = MAX_ITERATIONS

\* stopped at the cap with current_node naming a node other than the last
\* one attempted
C18_Witness ==
    \E r \in RunIds :
        /\ Returned(r)
        /\ ctx[r].status = "stopped_max_iterations"
        /\ ctx[r].current_node = "b"
        /\ Last(ctx[r].log).node = "a"

\* C19: the k-th executed entry shows the contents after exactly k step
\* executions, in every state however the live state has changed since; the
\* entry just appended shows the contents the step returned.
C19_LogSnapshots ==
    \A r \in RunIds :
        /\ \A k \in DOMAIN ctx[r].log :
              ctx[r].log[k].event = "executed" =>
                  ctx[r].log[k].state = [obs[r].given EXCEPT !.n = @ + k]
        /\ pc[r] = "resolve" => Last(ctx[r].log).state = heap[fr[r].state]

\* three executions in place on one object: the first entry still shows the
\* contents after one execution
C19_Witness ==
    \E r \in RunIds :
        /\ Returned(r)
        /\ \A n \in Nodes : DictGet(node_registry, n) = "inplace"
        /\ Len(ctx[r].log) = 3
        /\ Events(ctx[r].log) = {"executed"}
        /\ ctx[r].final_state = fr[r].initial_state
        /\ heap[ctx[r].final_state].n = obs[r].given.n + 3
        /\ ctx[r].log[1].state.n = obs[r].given.n + 1

\* C20: the i-th log entry carries iteration i and only the last entry may be
\* other than executed; on return the status is failed exactly when the last
\* entry is an error or missing_node entry, and otherwise every entry is
\* executed and there is at least one.
C20_LogShape ==
    \A r \in RunIds :
        LET log == ctx[r].log
        IN  /\ \A i \in DOMAIN log :
                  /\ log[i].iteration = i
                  /\ i < Len(log) => log[i].event = "executed"
            /\ Returned(r) =>
                  /\ log # <<>>
                  /\ ctx[r].status = "failed" <=>
                         Last(log).event \in {"error", "missing_node"}
                  /\ ctx[r].status \in {"completed", "stopped_max_iterations"} =>
                         Events(log) = {"executed"}

\* a failed run whose error entry follows executed entries
C20_Witness ==
    \E r \in RunIds :
        /\ Returned(r)
        /\ ctx[r].status = "failed"
        /\ Len(ctx[r].log) = 4
        /\ Last(ctx[r].log).event = "error"
        /\ ctx[r].log[3].event = "executed"

\* start_node, every edge key and every target of the graph is in its nodes
Valid(graph) ==
    /\ graph.start_node \in Range(graph.nodes)
    /\ DOMAIN graph.edges \subseteq Range(graph.nodes)
    /\ \A n \in DOMAIN graph.edges : Targets(graph.edges[n]) \subseteq Range(graph.nodes)

Is400(resp) == DOMAIN resp = {"status_code", "detail"} /\ resp.status_code = 400

\* C16: every stored graph is valid and stored under its own graph_id; a
\* create request with an invalid definition is answered 400 and leaves
\* graphs_store as it is, one with a valid definition adds the definition
\* under a new id and changes nothing else; every graph handed to run_graph
\* is valid.
C16_StoredGraphsValid ==
    /\ [](\A gid \in DOMAIN graphs_store :
             Valid(graphs_store[gid]) /\ graphs_store[gid].graph_id = gid)
    /\ [](\A r \in RunIds : pc[r] = "start" => Valid(fr[r].graph))
    /\ [][(created' # created \/ graphs_store' # graphs_store) =>
            \A c \in created' :
                IF Valid(c.definition)
                THEN /\ DOMAIN c.response = {"graph_id"}
                     /\ c.response.graph_id \notin DOMAIN graphs_store
                     /\ graphs_store' =
                           DictPut(graphs_store, c.response.graph_id,
                                   [c.definition EXCEPT !.graph_id = c.response.graph_id])
                ELSE /\ Is400(c.response)
                     /\ graphs_store' = graphs_store]_vars

\* two graphs stored, the last request rejected for its branch target alone,
\* and a run request accepted on a stored graph
C16_Witness ==
    /\ DOMAIN graphs_store = GraphIds
    /\ \E c \in created :
          /\ Is400(c.response)
          /\ c.definition.start_node = "a"
          /\ DOMAIN c.definition.edges = {"a"}
          /\ c.definition.edges["a"].default_next = "b"
          /\ c.definition.edges["a"].branches # <<>>
    /\ \E r \in RunIds : pc[r] = "start" /\ fr[r].graph = graphs_store["g2"]

\* The record a run on graph, from contents v at node current, ends with when
\* it is executed with nothing else going on: each attempt in turn, steps
\* that always succeed.
RECURSIVE AloneFrom(_, _, _, _, _)
AloneFrom(graph, current, v, iteration, log) ==
    IF current \notin DOMAIN node_registry
    THEN [status |-> "failed", iteration |-> iteration + 1, current_node |-> current,
          log |-> Append(log, [node |-> current, iteration |-> iteration + 1,
                               event |-> "missing_node", message |-> "not found"]),
          final_state |-> v]
    ELSE LET w == StepWrite(v)
             entries == Append(log, [node |-> current, iteration |-> iteration + 1,
                                     event |-> "executed", state |-> w])
             target == ResolvedTarget(graph, current, w)
         IN  IF target = None
             THEN [status |-> "completed", iteration |-> iteration + 1,
                   current_node |-> current, log |-> entries, final_state |-> w]
             ELSE IF iteration + 1 >= MAX_ITERATIONS
             THEN [status |-> "stopped_max_iterations", iteration |-> iteration + 1,
                   current_node |-> target, log |-> entries, final_state |-> w]
             ELSE AloneFrom(graph, target, w, iteration + 1, entries)

\* the state objects a run holds a reference to
Refs(r) ==
    {fr[r].initial_state, fr[r].state, fr[r].ret, ctx[r].final_state} \ {NoRef}

\* C15: a step of one run leaves the record, the locals and the state objects
\* of every other run as they are, no state object is held by two runs, and
\* each run returns with the status, iteration, current_node, log and
\* final_state contents it has when executed alone on its graph and state.
C15_RunsIndependent ==
    /\ [][\A r \in RunIds : \A q \in RunIds \ {r} :
            pc'[r] # pc[r] =>
                /\ ctx'[q] = ctx[q]
                /\ fr'[q] = fr[q]
                /\ \A ref \in Refs(q) : heap'[ref] = heap[ref]]_vars
    /\ [](\A r \in RunIds : \A q \in RunIds \ {r} : Refs(r) \cap Refs(q) = {})
    /\ [](\A r \in RunIds :
            Returned(r) =>
                LET alone == AloneFrom(fr[r].graph, fr[r].graph.start_node,
                                       obs[r].given, 0, <<>>)
                IN  /\ ctx[r].status = alone.status
                    /\ ctx[r].iteration = alone.iteration
                    /\ ctx[r].current_node = alone.current_node
                    /\ ctx[r].log = alone.log
                    /\ heap[ctx[r].final_state] = alone.final_state)

\* both runs were under way at once, on different states, and have returned
\* with different logs
C15_Witness ==
    /\ \A r \in RunIds : Returned(r)
    /\ Len(ctx["r1"].log) = 1
    /\ Len(ctx["r2"].log) = 3
    /\ fr["r1"].initial_state = 2
    /\ ctx["r1"].final_state # ctx["r2"].final_state
    /\ ctx["r1"].final_state > fr["r2"].initial_state
    /\ ctx["r2"].final_state > ctx["r1"].final_state

Is404(resp) == DOMAIN resp = {"status_code", "detail"} /\ resp.status_code = 404

\* run_graph has been called for the run and has not returned
InFlight(r) == pc[r] \notin {"idle", "rejected"} /\ ~Returned(r)

\* C21: every record in runs_store belongs to a run that has returned, is
\* stored under its run_id, and has a terminal status and a final_state; a
\* state query is never answered with status running, and a query for a run
\* in flight, or one not yet stored, is answered 404.
C21_StoredRunsTerminal ==
    /\ [](\A run_id \in DOMAIN runs_store :
             LET r == runs_store[run_id]
             IN  /\ Returned(r)
                 /\ pc[r] # "return"
                 /\ ctx[r].run_id = run_id
                 /\ ctx[r].status \in TerminalStatuses
                 /\ ctx[r].final_state # NoRef)
    /\ [](\A q \in queried :
             \/ Is404(q.response)
             \/ /\ q.run_id \in DOMAIN runs_store
                /\ q.response.status = ctx[runs_store[q.run_id]].status
                /\ q.response.status \in TerminalStatuses
                /\ q.response.logs = ctx[runs_store[q.run_id]].log)
    /\ [][queried' # queried =>
            \A q \in queried' :
                (q.run_id \notin RunIds \/ InFlight(q.run_id)
                    \/ pc[q.run_id] \in {"idle", "rejected", "return"}) =>
                    Is404(q.response)]_vars

\* a query for r1 answered 404 with r1 in flight, and one run stored
C21_Witness ==
    /\ \E q \in queried : q.run_id = "r1" /\ Is404(q.response)
    /\ pc["r1"] = "resolve"
    /\ ctx["r1"].iteration = 2
    /\ DOMAIN runs_store = {"r2"}

\* the payload lacks a graph_id or has an empty one, lacks a state, names a
\* graph that is not stored, or carries a state that does not parse
BadRequest(payload) ==
    \/ "graph_id" \notin DOMAIN payload
    \/ payload.graph_id = ""
    \/ "state" \notin DOMAIN payload
    \/ payload.graph_id \notin DOMAIN graphs_store
    \/ DOMAIN payload.state # {"n", "dirty", "threshold"}

\* the status code such a payload is answered with
ErrorCode(payload) ==
    IF /\ "graph_id" \in DOMAIN payload
       /\ payload.graph_id # ""
       /\ "state" \in DOMAIN payload
       /\ payload.graph_id \notin DOMAIN graphs_store
    THEN 404 ELSE 400

\* C23: a run request with a bad payload is rejected with 400, or 404 for an
\* unknown graph, and every other request is accepted; the rejection changes
\* neither store, no record, frame or state object, and nothing follows it:
\* no record is stored for it and no attempt is made.
C23_RejectedRequests ==
    /\ [][\A r \in RunIds :
            (pc[r] = "idle" /\ pc'[r] # "idle") =>
                IF BadRequest(obs'[r].request)
                THEN /\ pc'[r] = "rejected"
                     /\ response'[r] # {}
                     /\ \A e \in response'[r] :
                           /\ DOMAIN e = {"status_code", "detail"}
                           /\ e.status_code = ErrorCode(obs'[r].request)
                     /\ graphs_store' = graphs_store
                     /\ runs_store' = runs_store
                     /\ ctx' = ctx
                     /\ fr' = fr
                     /\ heap' = heap
                ELSE pc'[r] = "start"]_vars
    /\ [][\A r \in RunIds : pc[r] = "rejected" => pc'[r] = "rejected"]_vars
    /\ [](\A r \in RunIds :
            pc[r] = "rejected" =>
                /\ r \notin DOMAIN runs_store
                /\ \A run_id \in DOMAIN runs_store : runs_store[run_id] # r
                /\ fr[r] = NoFrame
                /\ ctx[r] = RunContext(r, "g1")
                /\ obs[r].attempts = 0)

\* a request for a graph that is not stored, answered 404 with the record of
\* the other run in runs_store
C23_Witness ==
    /\ pc["r1"] = "rejected"
    /\ \E e \in response["r1"] : Is404(e)
    /\ obs["r1"].request.graph_id = "g2"
    /\ DOMAIN runs_store = {"r2"}
    /\ Len(heap) > 1

\* the states the evaluate_quality visits of the log returned
Evaluated(log) ==
    {log[i].state : i \in {j \in Visits(log, "evaluate_quality") :
                              log[j].event = "executed"}}

\* the score in st is below the threshold in st, 70 when st has none; a
\* threshold that is not a number is not above any score
BelowThreshold(st) ==
    LET threshold == IF "quality_threshold" \in DOMAIN st
                     THEN st.quality_threshold ELSE IntValue(70)
    IN  threshold.type = "int" /\ st.quality_score < threshold.value

\* the quality score and the value of the predicate are the same at every
\* evaluate_quality visit
ScoreFixed(log) ==
    /\ Cardinality({st.quality_score : st \in Evaluated(log)}) <= 1
    /\ Cardinality({BelowThreshold(st) : st \in Evaluated(log)}) <= 1

CompletedAtFive(r) == ctx[r].status = "completed" /\ ctx[r].iteration = 5

StoppedAtCap(r) ==
    ctx[r].status = "stopped_max_iterations" /\ ctx[r].iteration = MAX_ITERATIONS

\* C22, as stated: the score and the predicate are the same at every
\* evaluate_quality visit, and every run of the workflow returns completed
\* with iteration 5 or stopped_max_iterations with iteration 20.
C22_FiveOrCap ==
    \A r \in RunIds :
        /\ ScoreFixed(ctx[r].log)
        /\ Returned(r) => (CompletedAtFive(r) \/ StoppedAtCap(r))

\* C22, amended: the score and the predicate are the same at every
\* evaluate_quality visit; a run whose code is a string, or absent, returns
\* completed with iteration 5 when the predicate is false or raises and
\* stopped_max_iterations with iteration 20 when it is true; a run whose code
\* is not a string returns failed with iteration 1.
C22_FiveOrCapOrFailed ==
    \A r \in RunIds :
        /\ ScoreFixed(ctx[r].log)
        /\ Returned(r) =>
              IF GetCode(obs[r].given).type # "str"
              THEN /\ ctx[r].status = "failed"
                   /\ ctx[r].iteration = 1
                   /\ ctx[r].log[1].event = "error"
              ELSE /\ CompletedAtFive(r) \/ StoppedAtCap(r)
                   /\ StoppedAtCap(r) <=> BelowThreshold(heap[ctx[r].final_state])
                   /\ Evaluated(ctx[r].log) # {}

\* code with 13 functions: complexity 65, one issue, score 30, below the
\* threshold 35 at each of the six evaluate_quality visits
C22_Witness ==
    \E r \in RunIds :
        /\ Returned(r)
        /\ StoppedAtCap(r)
        /\ Cardinality(Visits(ctx[r].log, "evaluate_quality")) = 6
        /\ heap[ctx[r].final_state].quality_score = 30
        /\ heap[ctx[r].final_state].quality_threshold = IntValue(35)

====
